---- MODULE Spec2Model ----
(***************************************************************************)
(* Model of macdeploycc.py: the library-relocation planner                 *)
(* (create_relocation_plan) and the pipeline of main() that plans the main *)
(* executable and every plugin, then copies, rewrites load paths, strips   *)
(* rpaths and signs.                                                       *)
(*                                                                         *)
(* A path or a dependency specifier is a record [kind, dir, name]:         *)
(*   kind "abs"   the string  <dir>/<name>                                 *)
(*   kind "rpath" the string  @rpath/<name>            (dir is "")         *)
(*   kind "exe"   the string  @executable_path/<dir>/<name>, where dir is  *)
(*                the relative part such as "../Frameworks"                *)
(* An rpath entry (LC_RPATH) is a record [kind, dir] of the same kinds,    *)
(* plus kind "loader" for @loader_path/... entries.                        *)
(* The filesystem fs maps every existing absolute path to the linkage      *)
(* metadata of the file (loads = LC_LOAD_DYLIB names in file order,        *)
(* rpaths = LC_RPATH paths in file order, pad = whether its header has     *)
(* room left for load commands to grow) or, for a symlink, its target.     *)
(***************************************************************************)
EXTENDS Integers, Sequences, FiniteSets, TLC

VARIABLES
    fs,                 \* the filesystem: bundle and external install trees
    plugins,            \* order in which plugins_folder_path.iterdir() yields the plugins
    pc,                 \* position of main(): start, plan, copy, rewrite, strip, sign, done, failed
    err,                \* the exception that ended the run ("" if none)
    info,               \* AppBundleInfo: libs_in_rpath
    ri,                 \* index in Roots of the binary being planned
    plan,               \* locals of the running create_relocation_plan
    rpah_actions,       \* main's local rpah_actions (last plan's rpath removals)
    all_copy_actions,
    all_update_actions,
    all_rpath_removals,
    i,                  \* index of the next action of the running apply loop
    signed,             \* outcome of codesign: "none", "ok", "rejected"
    rerun,              \* TRUE once the pipeline was interrupted and started again
    fs0,                \* the filesystem when the (first) run started
    binary,             \* the load commands of the file from_path is reading
    parse               \* locals of the running from_path

vars == <<fs, plugins, pc, err, info, ri, plan, rpah_actions, all_copy_actions,
          all_update_actions, all_rpath_removals, i, signed, rerun, fs0, binary, parse>>

-----------------------------------------------------------------------------
(* Bounds *)

\* A walk is cut once a node deeper than this is on top of the worklist.
\* The modelled filesystems hold ten files: a chain of distinct files never
\* gets that deep, only a walk that goes round a dependency cycle is cut.
MaxDepth == 10

-----------------------------------------------------------------------------
(* Directories and files of the modelled world *)

MACOS  == "/CloudCompare.app/Contents/MacOS"
FW     == "/CloudCompare.app/Contents/Frameworks"
PLUG   == "/CloudCompare.app/Contents/Plugins/ccPlugins"
CLIB   == "/CloudCompare.app/Contents/lib"
EXT    == "/deps/install/lib"
EXT2   == "/opt"
USRLIB == "/usr/lib"
GONE   == "/build/tmp/lib"

\* directories that exist on disk (GONE does not)
ExistingDirs == {MACOS, FW, PLUG, CLIB, EXT, EXT2, USRLIB}

Abs(d, n)   == [kind |-> "abs", dir |-> d, name |-> n]
RpathSpec(n) == [kind |-> "rpath", dir |-> "", name |-> n]
ExeSpec(rel, n) == [kind |-> "exe", dir |-> rel, name |-> n]

NoLink == [kind |-> "none", dir |-> "", name |-> ""]

RegularFile(loads, rpaths) ==
    [loads |-> loads, rpaths |-> rpaths, target |-> NoLink, pad |-> TRUE]
\* a binary linked without spare room after its load commands
UnpaddedFile(loads, rpaths) ==
    [loads |-> loads, rpaths |-> rpaths, target |-> NoLink, pad |-> FALSE]
Symlink(t) == [loads |-> <<>>, rpaths |-> <<>>, target |-> t, pad |-> TRUE]

\* pathlib: str(path).replace('@executable_path', str(base)) followed by
\* Path.resolve(), which normalises the ".." components
JoinRel(base, rel) ==
    CASE base = MACOS /\ rel = "../Frameworks" -> FW
      [] base = MACOS /\ rel = "../lib" -> CLIB
      [] base = PLUG /\ rel = "../Frameworks" -> "/CloudCompare.app/Contents/Plugins/Frameworks"
      [] base = PLUG /\ rel = "../lib" -> "/CloudCompare.app/Contents/Plugins/lib"
      [] OTHER -> GONE

\* Path.resolve() on a file: a symlink is replaced by its target
FollowLink(f, p) ==
    IF p \in DOMAIN f /\ f[p].target # NoLink THEN f[p].target ELSE p

\* Path.exists(): follows symlinks
Exists(f, p) == p \in DOMAIN f /\ FollowLink(f, p) \in DOMAIN f

\* [e.name for e in dir.iterdir()], as a set: only membership is ever used
ListDir(f, d) == {p.name : p \in {q \in DOMAIN f : q.dir = d}}

-----------------------------------------------------------------------------
(* Library.from_path, lines 21-48: the dump of the file the path leads to *)

from_path(f, path) ==
    [path |-> path,
     loaded_libs |-> f[FollowLink(f, path)].loads,
     rpaths |-> f[FollowLink(f, path)].rpaths]

(* is_system_lib, lines 51-58 *)
is_system_lib(lib) ==
    \/ lib.kind = "abs" /\ lib.dir = USRLIB
    \/ lib.kind = "abs" /\ lib.dir = "/System/Library/Frameworks"

\* a variant that only filters the system libraries
list_sublibs_ignoring_bundle(libs, libs_in_app_rpath) ==
    SelectSeq(libs, LAMBDA lib : ~is_system_lib(lib))

(* list_sublibs_to_relocate, lines 61-80 *)
list_sublibs_to_relocate(libs, libs_in_app_rpath) ==
    SelectSeq(libs, LAMBDA lib :
        /\ ~is_system_lib(lib)
        /\ ~(lib.kind = "rpath" /\ lib.name \in libs_in_app_rpath))

(* resolve_rpath, lines 104-107 *)
resolve_rpath(rpath, executable_path) ==
    IF rpath.kind = "exe"
    THEN [kind |-> "abs", dir |-> JoinRel(executable_path.dir, rpath.dir)]
    ELSE rpath

\* Path.exists() of a resolved rpath: "@loader_path/.." is a relative path
\* that names nothing
RpathExists(rpath) == rpath.kind = "abs" /\ rpath.dir \in ExistingDirs

(* resolve_load_path, lines 124-127 *)
resolve_load_path(f, load_path, exe_path) ==
    IF load_path.kind = "exe"
    THEN FollowLink(f, Abs(JoinRel(exe_path.dir, load_path.dir), load_path.name))
    ELSE load_path

-----------------------------------------------------------------------------
(* Library.from_path on the text otool prints, lines 21-48.                *)
(* A load command of a binary is a record [cmd, name]: the kind of the     *)
(* command and the path (or segment name) it carries, as the sequence of   *)
(* the words of that string, so a path holding a blank has two words.      *)
(* A line of the dump is the sequence of its words, what strip() and       *)
(* split() make of it.                                                     *)

MaxCmds == 2

LoadCmd(cmd, name) == [cmd |-> cmd, name |-> name]

\* the load commands that declare a dynamic library the binary depends on
DylibDependencyCmds ==
    {"LC_LOAD_DYLIB", "LC_LOAD_WEAK_DYLIB", "LC_REEXPORT_DYLIB"}

\* the commands otool prints in the layout of a dylib_command
DylibCmds == DylibDependencyCmds \cup {"LC_ID_DYLIB"}

\* the lines otool -l prints for one load command, the k-th of the file
DumpOfCmd(c, k) ==
    <<  <<"Load", "command", ToString(k - 1)>>, <<"cmd", c.cmd>> >> \o
    (CASE c.cmd \in DylibCmds ->
            <<  <<"cmdsize", "56">>,
                <<"name">> \o c.name \o <<"(offset", "24)">>,
                <<"time", "stamp", "2", "Thu", "Jan", "1", "01:00:02", "1970">>,
                <<"current", "version", "1.0.0">>,
                <<"compatibility", "version", "1.0.0">> >>
       [] c.cmd = "LC_RPATH" ->
            <<  <<"cmdsize", "48">>,
                <<"path">> \o c.name \o <<"(offset", "12)">> >>
       [] OTHER ->
            <<  <<"cmdsize", "72">>,
                <<"segname">> \o c.name,
                <<"vmaddr", "0x0000000000000000">> >>)

\* line 23: the output of otool -l, the name of the file first
RECURSIVE DumpFrom(_, _)
DumpFrom(cmds, k) ==
    IF k > Len(cmds) THEN <<>>
    ELSE DumpOfCmd(cmds[k], k) \o DumpFrom(cmds, k + 1)

otool_output == << <<"CloudCompare:">> >> \o DumpFrom(binary, 1)

\* line 32: line.startswith("Load command")
StartsWithLoadCommand(line) ==
    Len(line) >= 2 /\ line[1] = "Load" /\ line[2] = "command"

NoParse == [lines_iter |-> 0, loaded_libs |-> <<>>, rpaths |-> <<>>]

\* lines 31-46: one iteration of "for line in lines_iter", with the lines
\* its calls of next() consume; next() on the exhausted iterator raises
InspectStep ==
    /\ pc = "from_path"
    /\ parse.lines_iter <= Len(otool_output)
    /\ LET lines == otool_output
           n == parse.lines_iter
       IN  IF ~StartsWithLoadCommand(lines[n])
           THEN parse' = [parse EXCEPT !.lines_iter = n + 1] /\ UNCHANGED <<pc, err>>
           ELSE IF n + 1 > Len(lines)
           THEN pc' = "failed" /\ err' = "StopIteration" /\ UNCHANGED parse
           ELSE IF lines[n + 1] = <<"cmd", "LC_LOAD_DYLIB">>
           THEN IF n + 6 > Len(lines)
                THEN pc' = "failed" /\ err' = "StopIteration" /\ UNCHANGED parse
                ELSE /\ parse' = [parse EXCEPT
                                    !.lines_iter = n + 7,
                                    !.loaded_libs = Append(@, <<lines[n + 3][2]>>)]
                     /\ UNCHANGED <<pc, err>>
           ELSE IF lines[n + 1] = <<"cmd", "LC_RPATH">>
           THEN IF n + 3 > Len(lines)
                THEN pc' = "failed" /\ err' = "StopIteration" /\ UNCHANGED parse
                ELSE /\ parse' = [parse EXCEPT
                                    !.lines_iter = n + 4,
                                    !.rpaths = Append(@, <<lines[n + 3][2]>>)]
                     /\ UNCHANGED <<pc, err>>
           ELSE parse' = [parse EXCEPT !.lines_iter = n + 2] /\ UNCHANGED <<pc, err>>
    /\ UNCHANGED <<fs, plugins, info, ri, plan, rpah_actions, all_copy_actions,
                   all_update_actions, all_rpath_removals, i, signed, rerun, fs0,
                   binary>>

\* line 48: the for loop is exhausted, from_path returns the Library
InspectReturn ==
    /\ pc = "from_path"
    /\ parse.lines_iter > Len(otool_output)
    /\ pc' = "returned"
    /\ UNCHANGED <<fs, plugins, err, info, ri, plan, rpah_actions, all_copy_actions,
                   all_update_actions, all_rpath_removals, i, signed, rerun, fs0,
                   binary, parse>>

-----------------------------------------------------------------------------
(* The bundle *)

EXE == Abs(MACOS, "CloudCompare")
frameworks_path == FW
FrameworksRpath == [kind |-> "exe", dir |-> "../Frameworks"]

IndexOf(s, x) ==
    IF \E k \in 1..Len(s) : s[k] = x
    THEN CHOOSE k \in 1..Len(s) : s[k] = x /\ \A j \in 1..(k-1) : s[j] # x
    ELSE 0

(* AppBundleInfo.__init__, lines 110-116 *)
AppBundleInfo(f) ==
    LET lib_info == from_path(f, EXE)
        index == IndexOf(lib_info.rpaths, FrameworksRpath)
    IN  IF index = 0
        THEN [err |-> "ValueError", libs_in_rpath |-> {}]
        ELSE [err |-> "",
              libs_in_rpath |->
                  ListDir(f, resolve_rpath(lib_info.rpaths[index], lib_info.path).dir)]

-----------------------------------------------------------------------------
(* create_relocation_plan, lines 131-211 *)

min_depth_for_copy == 1

Node(path, depth) == [path |-> path, depth |-> depth]

\* a variant that takes the two paths the other way round
CopyLibSwapped(src, dst) == [src |-> dst, dst |-> src]
CopyLib(src, dst) == [src |-> src, dst |-> dst]
LoadPathChange(lib, old, new) == [lib |-> lib, old |-> old, new |-> new]
RemoveAllRpath(lib) == [lib |-> lib]

\* lines 140-146
PlanInit(root_lib) ==
    [libs_to_analyze |-> <<Node(root_lib, 0)>>,
     lib_names_in_rpaths |-> <<>>,
     copy_actions |-> <<>>,
     load_path_updates |-> <<>>,
     rpath_removals |-> <<>>,
     err |-> ""]

\* lib_names_in_rpaths[key] = val on a dict that keeps insertion order
DictPut(d, key, val) ==
    IF \E k \in 1..Len(d) : d[k].rpath = key
    THEN [k \in 1..Len(d) |->
            IF d[k].rpath = key THEN [rpath |-> key, libs_inside |-> val] ELSE d[k]]
    ELSE Append(d, [rpath |-> key, libs_inside |-> val])

\* lines 154-158.  The test "rpath not in lib_names_in_rpaths" compares a Path
\* with the str keys of the dict and is always true: every rpath is listed again.
RECURSIVE CacheRpaths(_, _, _, _)
CacheRpaths(f, d, rpaths, k) ==
    IF k > Len(rpaths) THEN d
    ELSE LET rpath == resolve_rpath(rpaths[k], EXE)
         IN  CacheRpaths(f,
                 IF RpathExists(rpath)
                 THEN DictPut(d, rpath.dir, ListDir(f, rpath.dir))
                 ELSE d,
                 rpaths, k + 1)

\* lines 168-184: the resolved path of one sublib, or the error raised
ResolveSublib(f, d, sublib) ==
    IF sublib.kind = "rpath"
    THEN IF \E k \in 1..Len(d) : sublib.name \in d[k].libs_inside
         THEN LET k == CHOOSE k \in 1..Len(d) :
                          /\ sublib.name \in d[k].libs_inside
                          /\ \A j \in 1..(k-1) : sublib.name \notin d[j].libs_inside
              IN  [err |-> "", path |-> Abs(d[k].rpath, sublib.name)]
         ELSE [err |-> "RuntimeError", path |-> NoLink]
    ELSE [err |-> "", path |-> resolve_load_path(f, sublib, EXE)]

\* a variant whose LoadPathChange always names the dependent where the walk
\* found it
RelocateResolvedAtSource(st, current_node, sublib, resolved_path) ==
    LET subnode == Node(resolved_path, current_node.depth + 1)
        copy_action == CopyLib(resolved_path, Abs(frameworks_path, resolved_path.name))
        update_load_path ==
            LoadPathChange(current_node.path, sublib, RpathSpec(sublib.name))
        remove_rpath_action == RemoveAllRpath(copy_action.dst)
    IN  IF subnode.depth >= min_depth_for_copy
        THEN [st EXCEPT
                !.copy_actions = Append(@, copy_action),
                !.load_path_updates = Append(@, update_load_path),
                !.rpath_removals = Append(@, remove_rpath_action),
                !.libs_to_analyze = Append(@, subnode)]
        ELSE st

\* lines 187-208: the actions for a dependency that resolved to resolved_path
RelocateResolved(st, current_node, sublib, resolved_path) ==
    LET subnode == Node(resolved_path, current_node.depth + 1)
        copy_action == CopyLib(resolved_path, Abs(frameworks_path, resolved_path.name))
        update_load_path ==
            LoadPathChange(
                IF current_node.depth >= min_depth_for_copy
                THEN Abs(frameworks_path, current_node.path.name)
                ELSE current_node.path,
                sublib,
                RpathSpec(sublib.name))
        remove_rpath_action == RemoveAllRpath(copy_action.dst)
    IN  IF subnode.depth >= min_depth_for_copy
        THEN [st EXCEPT
                !.copy_actions = Append(@, copy_action),
                !.load_path_updates = Append(@, update_load_path),
                !.rpath_removals = Append(@, remove_rpath_action),
                !.libs_to_analyze = Append(@, subnode)]
        ELSE st

\* a variant that passes over a dependency it cannot resolve
RelocateSublibSkipping(f, st, current_node, sublib) ==
    LET r == ResolveSublib(f, st.lib_names_in_rpaths, sublib)
    IN  IF r.err # "" THEN st
        ELSE IF ~Exists(f, r.path) THEN [st EXCEPT !.err = "AssertionError"]
        ELSE RelocateResolved(st, current_node, sublib, r.path)

\* lines 167-208: the body of "for sublib in sublibs_to_relocate"; the raise
\* of line 179 and the assert of line 184 end the walk
RelocateSublib(f, st, current_node, sublib) ==
    LET r == ResolveSublib(f, st.lib_names_in_rpaths, sublib)
    IN  IF r.err # "" THEN [st EXCEPT !.err = r.err]
        ELSE IF ~Exists(f, r.path) THEN [st EXCEPT !.err = "AssertionError"]
        ELSE RelocateResolved(st, current_node, sublib, r.path)

RECURSIVE RelocateSublibs(_, _, _, _, _)
RelocateSublibs(f, st, current_node, sublibs, k) ==
    IF k > Len(sublibs) \/ st.err # "" THEN st
    ELSE RelocateSublibs(f, RelocateSublib(f, st, current_node, sublibs[k]),
                         current_node, sublibs, k + 1)

\* lines 148-208: one iteration of "while libs_to_analyze"
PlanIter(f, libs_in_rpath, st) ==
    LET current_node == st.libs_to_analyze[Len(st.libs_to_analyze)]
        popped == SubSeq(st.libs_to_analyze, 1, Len(st.libs_to_analyze) - 1)
        current_lib == from_path(f, current_node.path)
        cached == CacheRpaths(f, st.lib_names_in_rpaths, current_lib.rpaths, 1)
        sublibs_to_relocate ==
            list_sublibs_to_relocate(current_lib.loaded_libs, libs_in_rpath)
    IN  RelocateSublibs(f,
            [st EXCEPT !.libs_to_analyze = popped, !.lib_names_in_rpaths = cached],
            current_node, sublibs_to_relocate, 1)

\* lines 148-211: the while loop run to its end (or to the cut of MaxDepth)
RECURSIVE RunPlan(_, _, _)
RunPlan(f, libs_in_rpath, st) ==
    IF \/ st.err # ""
       \/ st.libs_to_analyze = <<>>
       \/ st.libs_to_analyze[Len(st.libs_to_analyze)].depth > MaxDepth
    THEN st
    ELSE RunPlan(f, libs_in_rpath, PlanIter(f, libs_in_rpath, st))

-----------------------------------------------------------------------------
(* The apply loops of main, lines 253-278, one action of a list at a time *)

WriteFile(f, p, content) ==
    [q \in DOMAIN f \cup {p} |-> IF q = p THEN content ELSE f[q]]

\* a variant of the copy that refuses to overwrite a file
DoCopyNoOverwrite(f, action) ==
    IF action.src = action.dst
    THEN IF action.src.dir = frameworks_path
         THEN [err |-> "", fs |-> f]
         ELSE [err |-> "AssertionError", fs |-> f]
    ELSE IF ~Exists(f, action.src)
    THEN [err |-> "FileNotFoundError", fs |-> f]
    ELSE IF Exists(f, action.dst)
    THEN [err |-> "FileExistsError", fs |-> f]
    ELSE [err |-> "",
          fs |-> WriteFile(f, action.dst, f[FollowLink(f, action.src)])]

\* lines 253-257: shutil.copy2 follows symlinks and refuses to copy a file
\* onto itself
DoCopy(f, action) ==
    IF action.src = action.dst
    THEN IF action.src.dir = frameworks_path
         THEN [err |-> "", fs |-> f]
         ELSE [err |-> "AssertionError", fs |-> f]
    ELSE IF ~Exists(f, action.src)
    THEN [err |-> "FileNotFoundError", fs |-> f]
    ELSE IF Exists(f, action.dst) /\ FollowLink(f, action.src) = FollowLink(f, action.dst)
    THEN [err |-> "SameFileError", fs |-> f]
    ELSE [err |-> "",
          fs |-> WriteFile(f, FollowLink(f, action.dst), f[FollowLink(f, action.src)])]

\* length of the string a specifier stands for
StrLen(s) ==
    CASE s.kind = "abs" -> Len(s.dir) + 1 + Len(s.name)
      [] s.kind = "rpath" -> Len("@rpath/") + Len(s.name)
      [] s.kind = "exe" -> Len("@executable_path/") + Len(s.dir) + 1 + Len(s.name)

\* size of the LC_LOAD_DYLIB command that names s: the 24 bytes of a
\* dylib_command, then the name and its NUL padded to a multiple of 8
DylibCmdSize(s) == 24 + 8 * ((StrLen(s) + 8) \div 8)

\* exit status of install_name_tool -change old new lib: the tool fails, and
\* leaves the file as it is, when lib is missing or when the load commands
\* would grow and the header of lib has no room for that
ChangeStatus(f, action) ==
    IF ~Exists(f, action.lib) THEN 1
    ELSE LET p == FollowLink(f, action.lib)
         IN  IF /\ action.old \in {f[p].loads[k] : k \in 1..Len(f[p].loads)}
                /\ DylibCmdSize(action.new) > DylibCmdSize(action.old)
                /\ ~f[p].pad
             THEN 1 ELSE 0

\* lines 259-266: install_name_tool -change old new lib, its exit status ignored
DoRewrite(f, action) ==
    IF ChangeStatus(f, action) # 0
    THEN [err |-> "", fs |-> f]
    ELSE LET p == FollowLink(f, action.lib)
             loads == f[p].loads
         IN  [err |-> "",
              fs |-> [f EXCEPT ![p].loads =
                         [k \in 1..Len(loads) |->
                             IF loads[k] = action.old THEN action.new ELSE loads[k]]]]

\* install_name_tool -delete_rpath rpath lib: drops the first such entry
DeleteRpath(rpaths, rpath) ==
    LET k == IndexOf(rpaths, rpath)
    IN  SubSeq(rpaths, 1, k - 1) \o SubSeq(rpaths, k + 1, Len(rpaths))

RECURSIVE DeleteRpaths(_, _, _)
DeleteRpaths(current, listed, k) ==
    IF k > Len(listed) THEN [err |-> "", rpaths |-> current]
    ELSE IF IndexOf(current, listed[k]) = 0
    THEN [err |-> "CalledProcessError", rpaths |-> current]
    ELSE DeleteRpaths(DeleteRpath(current, listed[k]), listed, k + 1)

\* lines 268-278: otool and install_name_tool are run with check=True
DoStrip(f, action) ==
    IF ~Exists(f, action.lib)
    THEN [err |-> "CalledProcessError", fs |-> f]
    ELSE LET p == FollowLink(f, action.lib)
             lib == from_path(f, action.lib)
             r == DeleteRpaths(f[p].rpaths, lib.rpaths, 1)
         IN  [err |-> r.err, fs |-> [f EXCEPT ![p].rpaths = r.rpaths]]

\* lines 253-257: the copy loop from index k on; an exception ends it
RECURSIVE CopyAll(_, _, _)
CopyAll(r, copies, k) ==
    IF k > Len(copies) \/ r.err # "" THEN r
    ELSE CopyAll(DoCopy(r.fs, copies[k]), copies, k + 1)

\* lines 259-266: the rewrite loop
RECURSIVE RewriteAll(_, _, _)
RewriteAll(r, updates, k) ==
    IF k > Len(updates) \/ r.err # "" THEN r
    ELSE RewriteAll(DoRewrite(r.fs, updates[k]), updates, k + 1)

\* lines 268-278: the strip loop
RECURSIVE StripAll(_, _, _)
StripAll(r, removals, k) ==
    IF k > Len(removals) \/ r.err # "" THEN r
    ELSE StripAll(DoStrip(r.fs, removals[k]), removals, k + 1)

\* lines 253-278: the three loops in their order
ApplyPlan(f, copies, updates, removals) ==
    StripAll(RewriteAll(CopyAll([err |-> "", fs |-> f], copies, 1), updates, 1),
             removals, 1)

-----------------------------------------------------------------------------
(* main, lines 215-288 *)

P1 == Abs(PLUG, "libQP1.dylib")
P2 == Abs(PLUG, "libQP2.dylib")

\* the binaries main plans, in order: the executable (line 234), then the
\* plugins as iterdir yields them (line 239)
Roots == <<EXE>> \o plugins

NoPlan ==
    [libs_to_analyze |-> <<>>, lib_names_in_rpaths |-> <<>>, copy_actions |-> <<>>,
     load_path_updates |-> <<>>, rpath_removals |-> <<>>, err |-> ""]

\* lines 230-251: the plans of all the roots, accumulated as main does; the
\* removals of a plugin reach all_rpath_removals only through line 251
RECURSIVE PlanRoots(_, _, _, _, _)
PlanRoots(f, libs_in_rpath, roots, k, acc) ==
    IF k > Len(roots)
    THEN [acc EXCEPT !.removals = @ \o acc.rpah]
    ELSE LET st == RunPlan(f, libs_in_rpath, PlanInit(roots[k]))
         IN  IF st.err # "" THEN [acc EXCEPT !.err = st.err]
             ELSE IF st.libs_to_analyze # <<>> THEN [acc EXCEPT !.err = "endless"]
             ELSE PlanRoots(f, libs_in_rpath, roots, k + 1,
                     [err |-> "",
                      copies |-> acc.copies \o st.copy_actions,
                      updates |-> acc.updates \o st.load_path_updates,
                      removals |-> IF k = 1 THEN acc.removals \o st.rpath_removals
                                   ELSE acc.removals,
                      rpah |-> st.rpath_removals])

\* lines 228-278: a whole run of main on filesystem f up to the signing, as
\* one function: the error it ends with and the filesystem it leaves
RunMain(f, plugs) ==
    LET a == AppBundleInfo(f)
        p == PlanRoots(f, a.libs_in_rpath, <<EXE>> \o plugs, 1,
                 [err |-> "", copies |-> <<>>, updates |-> <<>>,
                  removals |-> <<>>, rpah |-> <<>>])
    IN  IF a.err # "" THEN [err |-> a.err, fs |-> f]
        ELSE IF p.err # "" THEN [err |-> p.err, fs |-> f]
        ELSE ApplyPlan(f, p.copies, p.updates, p.removals)

\* where main stands once the strip loop is at index k, the rewrite loop at
\* index k, the copy loop at index k: a loop that is exhausted falls through
StripPos(rs, k) == IF k <= Len(rs) THEN <<"strip", k>> ELSE <<"sign", 1>>
RewritePos(us, rs, k) == IF k <= Len(us) THEN <<"rewrite", k>> ELSE StripPos(rs, 1)

\* a variant that enters the rewrite loop before any copy was made
CopyPosRewritingFirst(cs, us, rs, k) ==
    IF k = 1 /\ us # <<>> THEN <<"rewrite", 1>>
    ELSE IF k <= Len(cs) THEN <<"copy", k>> ELSE RewritePos(us, rs, 1)
CopyPos(cs, us, rs, k) == IF k <= Len(cs) THEN <<"copy", k>> ELSE RewritePos(us, rs, 1)

\* lines 223-234: AppBundleInfo, then the call that plans the executable
MainStart ==
    /\ pc = "start"
    /\ LET a == AppBundleInfo(fs)
       IN  IF a.err # ""
           THEN /\ pc' = "failed"
                /\ err' = a.err
                /\ UNCHANGED <<info, ri, plan>>
           ELSE /\ pc' = "plan"
                /\ info' = [libs_in_rpath |-> a.libs_in_rpath]
                /\ ri' = 1
                /\ plan' = PlanInit(Roots[1])
                /\ err' = ""
    /\ UNCHANGED <<fs, plugins, rpah_actions, all_copy_actions, all_update_actions,
                   all_rpath_removals, i, signed, rerun, fs0, binary, parse>>

\* a variant of the planner that copies each library as soon as it has
\* scheduled it
PlanStepCopying ==
    /\ pc = "plan"
    /\ Len(plan.libs_to_analyze) > 0
    /\ plan.libs_to_analyze[Len(plan.libs_to_analyze)].depth <= MaxDepth
    /\ plan' = PlanIter(fs, info.libs_in_rpath, plan)
    /\ fs' = CopyAll([err |-> "", fs |-> fs], plan'.copy_actions,
                     Len(plan.copy_actions) + 1).fs
    /\ IF plan'.err # ""
       THEN pc' = "failed" /\ err' = plan'.err
       ELSE UNCHANGED <<pc, err>>
    /\ UNCHANGED <<plugins, info, ri, rpah_actions, all_copy_actions,
                   all_update_actions, all_rpath_removals, i, signed, rerun, fs0, binary, parse>>

\* lines 148-208: one iteration of the planner's while loop; an exception
\* leaves create_relocation_plan and main
PlanStep ==
    /\ pc = "plan"
    /\ Len(plan.libs_to_analyze) > 0
    /\ plan.libs_to_analyze[Len(plan.libs_to_analyze)].depth <= MaxDepth
    /\ plan' = PlanIter(fs, info.libs_in_rpath, plan)
    /\ IF plan'.err # ""
       THEN pc' = "failed" /\ err' = plan'.err
       ELSE UNCHANGED <<pc, err>>
    /\ UNCHANGED <<fs, plugins, info, ri, rpah_actions, all_copy_actions,
                   all_update_actions, all_rpath_removals, i, signed, rerun, fs0, binary, parse>>

\* line 211 and its caller: lines 234-237 for the executable, lines 244-250
\* for a plugin; after the last plugin line 251 and the entry of the copy loop
PlanReturn ==
    /\ pc = "plan"
    /\ Len(plan.libs_to_analyze) = 0
    /\ LET copies == all_copy_actions \o plan.copy_actions
           updates == all_update_actions \o plan.load_path_updates
           removals == IF ri = 1 THEN all_rpath_removals \o plan.rpath_removals
                       ELSE all_rpath_removals
       IN  /\ all_copy_actions' = copies
           /\ all_update_actions' = updates
           /\ rpah_actions' = plan.rpath_removals
           /\ IF ri < Len(Roots)
              THEN /\ all_rpath_removals' = removals
                   /\ ri' = ri + 1
                   /\ plan' = PlanInit(Roots[ri + 1])
                   /\ UNCHANGED <<pc, i>>
              ELSE /\ all_rpath_removals' = removals \o plan.rpath_removals
                   /\ plan' = NoPlan
                   /\ pc' = CopyPos(copies, updates, all_rpath_removals', 1)[1]
                   /\ i' = CopyPos(copies, updates, all_rpath_removals', 1)[2]
                   /\ UNCHANGED ri
    /\ UNCHANGED <<fs, plugins, err, info, signed, rerun, fs0, binary, parse>>

\* lines 253-257, one action
CopyStep ==
    /\ pc = "copy"
    /\ LET r == DoCopy(fs, all_copy_actions[i])
       IN  IF r.err # ""
           THEN pc' = "failed" /\ err' = r.err /\ UNCHANGED <<fs, i>>
           ELSE /\ fs' = r.fs
                /\ pc' = CopyPos(all_copy_actions, all_update_actions, all_rpath_removals, i + 1)[1]
                /\ i' = CopyPos(all_copy_actions, all_update_actions, all_rpath_removals, i + 1)[2]
                /\ UNCHANGED err
    /\ UNCHANGED <<plugins, info, ri, plan, rpah_actions, all_copy_actions,
                   all_update_actions, all_rpath_removals, signed, rerun, fs0, binary, parse>>

\* lines 259-266, one action
RewriteStep ==
    /\ pc = "rewrite"
    /\ fs' = DoRewrite(fs, all_update_actions[i]).fs
    /\ pc' = RewritePos(all_update_actions, all_rpath_removals, i + 1)[1]
    /\ i' = RewritePos(all_update_actions, all_rpath_removals, i + 1)[2]
    /\ UNCHANGED <<plugins, err, info, ri, plan, rpah_actions, all_copy_actions,
                   all_update_actions, all_rpath_removals, signed, rerun, fs0, binary, parse>>

\* lines 268-278, one action
StripStep ==
    /\ pc = "strip"
    /\ LET r == DoStrip(fs, all_rpath_removals[i])
       IN  IF r.err # ""
           THEN pc' = "failed" /\ err' = r.err /\ UNCHANGED <<fs, i>>
           ELSE /\ fs' = r.fs
                /\ pc' = StripPos(all_rpath_removals, i + 1)[1]
                /\ i' = StripPos(all_rpath_removals, i + 1)[2]
                /\ UNCHANGED err
    /\ UNCHANGED <<plugins, info, ri, plan, rpah_actions, all_copy_actions,
                   all_update_actions, all_rpath_removals, signed, rerun, fs0, binary, parse>>

\* lines 281-288: codesign is run without check, whatever it answers main ends
Sign ==
    /\ pc = "sign"
    /\ \E outcome \in {"ok", "rejected"} : signed' = outcome
    /\ pc' = "done"
    /\ UNCHANGED <<fs, plugins, err, info, ri, plan, rpah_actions, all_copy_actions,
                   all_update_actions, all_rpath_removals, i, rerun, fs0, binary, parse>>

\* The process is stopped inside the apply loops after some sub-step and the
\* script is started again on the bundle as it was left (lines 293-294)
Interrupt ==
    /\ pc \in {"copy", "rewrite", "strip"}
    /\ ~(pc = "copy" /\ i = 1)
    /\ ~rerun
    /\ rerun' = TRUE
    /\ pc' = "start"
    /\ err' = ""
    /\ info' = [libs_in_rpath |-> {}]
    /\ ri' = 0
    /\ plan' = NoPlan
    /\ rpah_actions' = <<>>
    /\ all_copy_actions' = <<>>
    /\ all_update_actions' = <<>>
    /\ all_rpath_removals' = <<>>
    /\ i' = 0
    /\ UNCHANGED <<fs, plugins, signed, fs0, binary, parse>>

-----------------------------------------------------------------------------
(* The bundles and install trees the script is started on *)

LibA  == Abs(EXT, "libA.dylib")
LibB  == Abs(EXT, "libB.dylib")
LibB2 == Abs(EXT2, "libB.dylib")
LibF  == Abs(FW, "libF.dylib")
LibS  == Abs(USRLIB, "libS.dylib")
LibL  == Abs(CLIB, "libL.dylib")
LibL1 == Abs(CLIB, "libL.1.dylib")

aS  == LibS
aA  == LibA
aB  == LibB
aB2 == LibB2
rA  == RpathSpec("libA.dylib")
rB  == RpathSpec("libB.dylib")
rF  == RpathSpec("libF.dylib")
rS  == RpathSpec("libS.dylib")
rU  == RpathSpec("libU.dylib")
eF  == ExeSpec("../Frameworks", "libF.dylib")
eL  == ExeSpec("../lib", "libL.dylib")

dEXT  == [kind |-> "abs", dir |-> EXT]
dEXT2 == [kind |-> "abs", dir |-> EXT2]
dUSR  == [kind |-> "abs", dir |-> USRLIB]
dGONE == [kind |-> "abs", dir |-> GONE]
dLOADER == [kind |-> "loader", dir |-> "../lib"]
dLOADERFW == [kind |-> "loader", dir |-> "../Frameworks"]

ExeChoices ==
    { RegularFile(l, <<FrameworksRpath, dEXT>>) :
        l \in { <<aS, rF>>, <<aS, rA, rB>>, <<eF, aA>>, <<eL, rF>> } }
    \cup { RegularFile(<<aS, rF>>, <<dLOADERFW, dEXT>>),
           RegularFile(<<aS, rA>>, <<dEXT>>) }

P1Choices ==
    { RegularFile(<<rA>>, <<dEXT>>),
      RegularFile(<<rB, aA>>, <<dEXT2, dEXT>>),
      RegularFile(<<rS>>, <<dUSR>>),
      RegularFile(<<aA, aB>>, <<>>) }

P2Choices ==
    { RegularFile(<<rF>>, <<>>),
      RegularFile(<<rB>>, <<dLOADER, dEXT>>),
      RegularFile(<<rA, rU>>, <<dEXT>>),
      RegularFile(<<P1>>, <<>>) }

LibAChoices ==
    { RegularFile(<<>>, <<>>),
      RegularFile(<<rB>>, <<dGONE>>),
      RegularFile(<<aS, aB2>>, <<dEXT>>),
      UnpaddedFile(<<aS, aB2>>, <<>>) }

LibBChoices ==
    { RegularFile(<<>>, <<dEXT>>),
      RegularFile(<<rA>>, <<dEXT>>),
      RegularFile(<<P1>>, <<>>) }

LibFChoices ==
    { RegularFile(<<>>, <<>>),
      RegularFile(<<rB>>, <<dEXT2, dEXT>>) }

World(exe, p1, p2, a, b, f) ==
    [q \in {EXE, P1, P2, LibA, LibB, LibB2, LibF, LibS, LibL, LibL1} |->
        CASE q = EXE -> exe
          [] q = P1 -> p1
          [] q = P2 -> p2
          [] q = LibA -> a
          [] q = LibB -> b
          [] q = LibF -> f
          [] q = LibL -> Symlink(LibL1)
          [] OTHER -> RegularFile(<<>>, <<>>)]

Init ==
    /\ \E exe \in ExeChoices, p1 \in P1Choices, p2 \in P2Choices,
          a \in LibAChoices, b \in LibBChoices, f \in LibFChoices :
            fs = World(exe, p1, p2, a, b, f)
    /\ plugins \in {<<P1, P2>>, <<P2, P1>>}
    /\ fs0 = fs
    /\ pc = "start"
    /\ err = ""
    /\ info = [libs_in_rpath |-> {}]
    /\ ri = 0
    /\ plan = NoPlan
    /\ rpah_actions = <<>>
    /\ all_copy_actions = <<>>
    /\ all_update_actions = <<>>
    /\ all_rpath_removals = <<>>
    /\ i = 0
    /\ signed = "none"
    /\ rerun = FALSE
    /\ binary = <<>>
    /\ parse = NoParse

Next ==
    \/ MainStart
    \/ PlanStep
    \/ PlanReturn
    \/ CopyStep
    \/ RewriteStep
    \/ StripStep
    \/ Sign
    \/ Interrupt

Spec == Init /\ [][Next]_vars

-----------------------------------------------------------------------------
(* from_path run on its own, on a binary with up to MaxCmds load commands *)

PlainLib  == <<"@rpath/libA.dylib">>
SpacedLib == <<"/Library/Application", "Support/CC/libY.dylib">>
PlainDir  == <<"@executable_path/../Frameworks">>
SpacedDir == <<"/Users/me/My", "Libs/lib">>

Commands ==
    { LoadCmd("LC_LOAD_DYLIB", PlainLib),
      LoadCmd("LC_LOAD_DYLIB", SpacedLib),
      LoadCmd("LC_LOAD_WEAK_DYLIB", PlainLib),
      LoadCmd("LC_REEXPORT_DYLIB", PlainLib),
      LoadCmd("LC_ID_DYLIB", PlainLib),
      LoadCmd("LC_RPATH", PlainDir),
      LoadCmd("LC_RPATH", SpacedDir),
      LoadCmd("LC_SEGMENT_64", <<"__TEXT">>) }

InspectInit ==
    /\ binary \in UNION {[1..n -> Commands] : n \in 0..MaxCmds}
    /\ parse = [lines_iter |-> 1, loaded_libs |-> <<>>, rpaths |-> <<>>]
    /\ pc = "from_path"
    /\ err = ""
    /\ fs = <<>>
    /\ fs0 = <<>>
    /\ plugins = <<>>
    /\ info = [libs_in_rpath |-> {}]
    /\ ri = 0
    /\ plan = NoPlan
    /\ rpah_actions = <<>>
    /\ all_copy_actions = <<>>
    /\ all_update_actions = <<>>
    /\ all_rpath_removals = <<>>
    /\ i = 0
    /\ signed = "none"
    /\ rerun = FALSE

InspectNext ==
    \/ InspectStep
    \/ InspectReturn

SpecInspect == InspectInit /\ [][InspectNext]_vars

-----------------------------------------------------------------------------
(* Vocabulary of the properties *)

Range(s) == {s[k] : k \in 1..Len(s)}

\* the binary the running create_relocation_plan was called on
root_lib == Roots[ri]

\* create_relocation_plan has left its while loop and is about to return
PlanFinished == pc = "plan" /\ plan.libs_to_analyze = <<>>

\* number of CopyLib actions of a list whose src is p
CopiesOf(copies, p) == Cardinality({k \in 1..Len(copies) : copies[k].src = p})

\* the libraries a binary p depends on and that have to be relocated, each
\* as resolved through the search paths d
RelocatableDeps(f, d, p) ==
    {ResolveSublib(f, d, s).path :
        s \in Range(list_sublibs_to_relocate(from_path(f, p).loaded_libs,
                                             info.libs_in_rpath))}

RECURSIVE Closure(_, _, _)
Closure(f, d, S) ==
    LET N == S \cup UNION {RelocatableDeps(f, d, p) : p \in S}
    IN  IF N = S THEN S ELSE Closure(f, d, N)

\* the relocatable libraries transitively reachable from p
Reachable(f, d, p) == Closure(f, d, RelocatableDeps(f, d, p))

\* every load command of file p names a system library or @rpath/<name> with
\* <name> present in Contents/Frameworks
SelfContainedFile(f, p) ==
    \A k \in 1..Len(f[p].loads) :
        \/ is_system_lib(f[p].loads[k])
        \/ /\ f[p].loads[k].kind = "rpath"
           /\ f[p].loads[k].name \in ListDir(f, frameworks_path)

\* the files the copy loop has written into Contents/Frameworks
CopiedLibs ==
    {all_copy_actions[k].dst :
        k \in {j \in 1..Len(all_copy_actions) :
                  all_copy_actions[j].src # all_copy_actions[j].dst}}

-----------------------------------------------------------------------------
(* Properties *)

\* C1 (as stated; refuted): when a run of main on the bundle as built has
\* completed, every load command of the executable, of every plugin and of
\* every library copied into Contents/Frameworks names a system library or
\* @rpath/<name> with <name> present in Contents/Frameworks.
C1_SelfContained ==
    (pc = "done" /\ ~rerun) =>
        \A p \in {EXE} \cup Range(plugins) \cup CopiedLibs : SelfContainedFile(fs, p)

\* C2 (as stated; refuted): the plan create_relocation_plan returns holds
\* exactly one CopyLib for every relocatable library reachable from the root
\* and none for any other file.
C2_ExactlyOneCopy ==
    PlanFinished =>
        \A p \in DOMAIN fs :
            CopiesOf(plan.copy_actions, p) =
                IF p \in Reachable(fs, plan.lib_names_in_rpaths, root_lib) THEN 1 ELSE 0

\* C3 (as stated; refuted): create_relocation_plan terminates.  The walk is
\* deterministic and keeps no record of the paths it has seen, so it
\* terminates exactly when no path occurs twice on a chain of dependencies,
\* that is when no node is ever deeper than there are files on disk.
C3_Terminates ==
    pc = "plan" =>
        \A n \in Range(plan.libs_to_analyze) : n.depth < Cardinality(DOMAIN fs)

\* C4 (as stated; refuted): within one planning run no two CopyLib actions
\* with different src have the same dst.
C4_NoNameCollision ==
    pc = "plan" =>
        \A a, b \in Range(plan.copy_actions) : a.dst = b.dst => a.src = b.src

\* C5 (as stated; refuted): no action of a plan references a system library,
\* neither as the declared specifier of a LoadPathChange nor as the src of a
\* CopyLib.
C5_NoSystemLibrary ==
    pc = "plan" =>
        /\ \A a \in Range(plan.load_path_updates) : ~is_system_lib(a.old)
        /\ \A a \in Range(plan.copy_actions) : ~is_system_lib(a.src)

\* the node the next iteration of the while loop pops, and its dump
TopNode == plan.libs_to_analyze[Len(plan.libs_to_analyze)]
TopLib == from_path(fs, TopNode.path)

\* the part of sequence s' that a step has appended to s
Added(s, t) == SubSeq(t, Len(s) + 1, Len(t))

\* the nodes an iteration has pushed: what the worklist holds beyond the
\* nodes that were below the popped one
Pushed == SubSeq(plan'.libs_to_analyze, Len(plan.libs_to_analyze), Len(plan'.libs_to_analyze))

\* C6 (as stated; refuted): no LoadPathChange is ever emitted for a declared
\* dependency whose filename is in libs_in_rpath, whatever the form of its
\* specifier.
C6_SkipsAnyForm ==
    pc = "plan" =>
        \A a \in Range(plan.load_path_updates) : a.old.name \notin info.libs_in_rpath

\* C6 (amended): in every iteration of the walk, the nodes pushed and the
\* CopyLib, LoadPathChange and RemoveAllRpath actions emitted correspond one
\* to one, and none of them is for an @rpath specifier whose filename is in
\* libs_in_rpath: such a dependency gets no action and is never pushed.
C6_SkipsBundledRpath ==
    [][ (pc = "plan" /\ plan.libs_to_analyze # <<>>) =>
          LET copies == Added(plan.copy_actions, plan'.copy_actions)
              updates == Added(plan.load_path_updates, plan'.load_path_updates)
              removals == Added(plan.rpath_removals, plan'.rpath_removals)
          IN  /\ Len(copies) = Len(updates)
              /\ Len(removals) = Len(updates)
              /\ Len(Pushed) = Len(updates)
              /\ \A k \in 1..Len(updates) :
                    /\ Pushed[k].path = copies[k].src
                    /\ removals[k].lib = copies[k].dst
                    /\ updates[k].old \in Range(TopLib.loaded_libs)
                    /\ ~(updates[k].old.kind = "rpath"
                         /\ updates[k].old.name \in info.libs_in_rpath)
      ]_vars

\* C6 witness: a plan is complete whose root declares an @rpath dependency
\* already in the bundle next to dependencies that were relocated.
C6_Witness ==
    /\ PlanFinished
    /\ plan.load_path_updates # <<>>
    /\ \E s \in Range(from_path(fs, root_lib).loaded_libs) :
          s.kind = "rpath" /\ s.name \in info.libs_in_rpath

\* an @rpath dependency of the node on top of the worklist that has to be
\* relocated and that none of the search paths met so far in the walk, those
\* of the node included, contains
UnresolvedOnTop ==
    LET known == {plan.lib_names_in_rpaths[k].rpath :
                      k \in 1..Len(plan.lib_names_in_rpaths)}
                 \cup {resolve_rpath(r, EXE).dir :
                          r \in {q \in Range(TopLib.rpaths) :
                                    RpathExists(resolve_rpath(q, EXE))}}
    IN  \E s \in Range(TopLib.loaded_libs) :
            /\ s.kind = "rpath"
            /\ s.name \notin info.libs_in_rpath
            /\ \A d \in known : s.name \notin ListDir(fs, d)

\* C7: when the node being analysed declares a relocatable @rpath dependency
\* that no search path contains, the iteration ends the run with an error:
\* nothing is returned to main, whose lists of actions stay as they were.
C7_UnresolvedFails ==
    [][ (pc = "plan" /\ plan.libs_to_analyze # <<>> /\ UnresolvedOnTop) =>
          /\ pc' = "failed"
          /\ err' # ""
          /\ UNCHANGED <<all_copy_actions, all_update_actions,
                         all_rpath_removals, rpah_actions, fs>>
      ]_vars

\* C7 witness: the walk has failed on an unresolved dependency after it had
\* accumulated actions for dependencies resolved earlier.
C7_Witness ==
    /\ pc = "failed"
    /\ err = "RuntimeError"
    /\ plan.copy_actions # <<>>

\* C8: as long as planning has not returned for the executable and for every
\* plugin, and also when it has failed, the filesystem is as the run found it:
\* no step taken while main is planning, or after it has failed, changes a file.
C8_PlanningBeforeMutation ==
    /\ []((~rerun /\ (pc \in {"start", "plan"} \/ (pc = "failed" /\ i = 0)))
            => fs = fs0)
    /\ [][ (pc \in {"start", "plan", "failed"}) => UNCHANGED fs ]_vars

\* C8 witness: planning has failed on the last plugin after the plans of the
\* earlier binaries had returned actions.
C8_Witness ==
    /\ ~rerun
    /\ pc = "failed"
    /\ i = 0
    /\ ri = Len(Roots)
    /\ all_copy_actions # <<>>

\* C9: once the three loops of main have run, running them again with the
\* same lists of actions raises no error and leaves the filesystem as it is.
C9_ApplyIdempotent ==
    pc \in {"sign", "done"} =>
        ApplyPlan(fs, all_copy_actions, all_update_actions, all_rpath_removals)
            = [err |-> "", fs |-> fs]

\* C9 witness: the loops have run and have copied libraries, rewritten load
\* paths of the executable and stripped search paths.
C9_Witness ==
    /\ pc = "sign"
    /\ CopiedLibs # {}
    /\ fs[EXE].loads # fs0[EXE].loads
    /\ \E a \in Range(all_rpath_removals) :
          \E c \in Range(all_copy_actions) :
              c.dst = a.lib /\ fs0[FollowLink(fs0, c.src)].rpaths # <<>>

\* C10 (as stated; refuted): a run started again after an interruption of the
\* apply loops completes and leaves the bundle as an uninterrupted run on the
\* original bundle leaves it.  Stated for the bundles on which the
\* uninterrupted run completes and leaves the executable and the plugins with
\* load commands that all resolve inside the bundle.
C10_SafeRerun ==
    (/\ rerun
     /\ pc \in {"done", "failed"}
     /\ RunMain(fs0, plugins).err = ""
     /\ \A p \in {EXE} \cup Range(plugins) :
            SelfContainedFile(RunMain(fs0, plugins).fs, p)) =>
        /\ pc = "done"
        /\ fs = RunMain(fs0, plugins).fs

\* the place of a position of main in the order of its phases
PhaseRank(p) ==
    CASE p = "start" -> 0
      [] p = "plan" -> 1
      [] p = "copy" -> 2
      [] p = "rewrite" -> 3
      [] p = "strip" -> 4
      [] p = "sign" -> 5
      [] OTHER -> 6

\* the list of actions the loop of a phase goes through
PhaseList(p, copies, updates, removals) ==
    CASE p = "copy" -> copies
      [] p = "rewrite" -> updates
      [] p = "strip" -> removals
      [] OTHER -> <<>>

\* C11: within a run main never goes back to an earlier phase; it leaves
\* planning only once the last binary has been planned; a loop is left only
\* after its last action, and entered at its first; a phase is passed over
\* only if its list, which holds the actions of all the binaries, is empty.
\* So every copy is executed before the first rewrite, every rewrite before
\* the first strip, and codesign runs after the last strip.
C11_PhaseOrder ==
    [][ (pc' \notin {"start", "failed"}) =>
          /\ PhaseRank(pc') >= PhaseRank(pc)
          /\ (pc = "plan" /\ pc' # "plan") => ri = Len(Roots)
          /\ (pc \in {"copy", "rewrite", "strip"} /\ pc' # pc) =>
                i = Len(PhaseList(pc, all_copy_actions, all_update_actions,
                                  all_rpath_removals))
          /\ (pc \in {"copy", "rewrite", "strip"} /\ pc' = pc) => i' = i + 1
          /\ (pc' \in {"copy", "rewrite", "strip"} /\ pc' # pc) => i' = 1
          /\ \A q \in {"copy", "rewrite", "strip"} :
                (PhaseRank(pc) < PhaseRank(q) /\ PhaseRank(q) < PhaseRank(pc')) =>
                    PhaseList(q, all_copy_actions', all_update_actions',
                              all_rpath_removals') = <<>>
      ]_vars

\* C11 witness: codesign is about to run after loops that each had actions
\* of more than one binary to go through.
C11_Witness ==
    /\ pc = "sign"
    /\ ~rerun
    /\ \E a, b \in Range(all_update_actions) : a.lib = EXE /\ b.lib \in Range(plugins)
    /\ Len(all_copy_actions) >= 2
    /\ all_rpath_removals # <<>>

\* the plan create_relocation_plan returns for root r on the filesystem the
\* run started on
PlanOf(r) == RunPlan(fs0, info.libs_in_rpath, PlanInit(r))

\* C12 (as stated; refuted): when the three loops of main have run, every
\* action of the plan of the executable and of the plan of every plugin is
\* in the list main has executed, and every library copied into
\* Contents/Frameworks is left without any LC_RPATH.
C12_UnionApplied ==
    (pc \in {"sign", "done"} /\ ~rerun) =>
        /\ \A k \in 1..Len(Roots) :
              /\ Range(PlanOf(Roots[k]).copy_actions) \subseteq Range(all_copy_actions)
              /\ Range(PlanOf(Roots[k]).load_path_updates) \subseteq Range(all_update_actions)
              /\ Range(PlanOf(Roots[k]).rpath_removals) \subseteq Range(all_rpath_removals)
        /\ \A p \in CopiedLibs : fs[p].rpaths = <<>>

\* the sub-step the running apply loop is about to execute fails: the copy
\* raises, or the tool that rewrites or strips exits with a non-zero status
SubStepFails ==
    \/ pc = "copy" /\ DoCopy(fs, all_copy_actions[i]).err # ""
    \/ pc = "rewrite" /\ ChangeStatus(fs, all_update_actions[i]) # 0
    \/ pc = "strip" /\ DoStrip(fs, all_rpath_removals[i]).err # ""

\* C13 (as stated; refuted): a sub-step of the apply loops that fails ends
\* the run with an error there and then, and nothing is executed once the
\* run has failed: no later action, no codesign.
C13_FailureIsFatal ==
    [][ /\ (rerun' = rerun /\ SubStepFails) =>
              (pc' = "failed" /\ err' # "" /\ UNCHANGED fs)
        /\ pc # "failed"
      ]_vars

\* the existing directories the LC_RPATH entries of the node on top of the
\* worklist stand for, in the order the binary declares them
OwnSearchDirs ==
    LET own == [k \in 1..Len(TopLib.rpaths) |-> resolve_rpath(TopLib.rpaths[k], EXE)]
    IN  SelectSeq(own, RpathExists)

\* the @rpath dependencies of the node on top of the worklist that have to
\* be relocated
RpathSublibsOnTop ==
    {s \in Range(list_sublibs_to_relocate(TopLib.loaded_libs, info.libs_in_rpath)) :
        s.kind = "rpath"}

\* C14 (as stated; refuted): in every iteration of the walk an @rpath
\* dependency of the analysed binary is resolved to a directory that one of
\* the binary's own LC_RPATH entries names, and the iteration fails when
\* none of its own entries names a directory holding the file.
C14_OwnSearchPaths ==
    [][ (pc = "plan" /\ plan.libs_to_analyze # <<>>) =>
          LET copies == Added(plan.copy_actions, plan'.copy_actions)
              updates == Added(plan.load_path_updates, plan'.load_path_updates)
              owndirs == {d.dir : d \in Range(OwnSearchDirs)}
          IN  /\ \A k \in 1..Len(updates) :
                    updates[k].old.kind = "rpath" => copies[k].src.dir \in owndirs
              /\ (\E s \in RpathSublibsOnTop :
                      \A d \in owndirs : s.name \notin ListDir(fs, d))
                    => plan'.err # ""
      ]_vars

\* the own search directories of the node on top of the worklist that hold
\* a file called name, in declaration order
OwnDirsHolding(name) ==
    LET Holds(d) == name \in ListDir(fs, d.dir)
    IN  SelectSeq(OwnSearchDirs, Holds)

\* C15 (as stated; refuted): in every iteration of the walk, an @rpath
\* dependency whose file lies in several of the directories the analysed
\* binary declares as LC_RPATH is resolved to the first of them in the
\* binary's declaration order.
C15_DeclarationOrder ==
    [][ (pc = "plan" /\ plan.libs_to_analyze # <<>>) =>
          LET copies == Added(plan.copy_actions, plan'.copy_actions)
              updates == Added(plan.load_path_updates, plan'.load_path_updates)
          IN  \A k \in 1..Len(updates) :
                 (/\ updates[k].old.kind = "rpath"
                  /\ Len(OwnDirsHolding(updates[k].old.name)) >= 2)
                    => copies[k].src.dir = OwnDirsHolding(updates[k].old.name)[1].dir
      ]_vars

C17_SigningFailureReported ==
    (signed = "rejected") =>
        /\ pc = "failed"
        /\ err # ""
        /\ ~rerun => fs = RunMain(fs0, plugins).fs

\* the directory the dynamic loader takes an LC_RPATH entry of the main
\* executable for: @loader_path is, for the executable, its own directory
LoaderTarget(r) ==
    IF r.kind = "abs" THEN r.dir ELSE JoinRel(EXE.dir, r.dir)

\* C19 (as stated; refuted): once AppBundleInfo has been built or has
\* failed, it has failed if and only if no LC_RPATH entry of the executable
\* leads to Contents/Frameworks, and if it was built its libs_in_rpath holds
\* the names of the files in Contents/Frameworks.
C19_BundleContext ==
    (pc # "start" /\ ~rerun) =>
        LET declared == \E r \in Range(from_path(fs0, EXE).rpaths) :
                            LoaderTarget(r) = frameworks_path
        IN  /\ (pc = "failed" /\ err = "ValueError") <=> ~declared
            /\ declared => info.libs_in_rpath = ListDir(fs0, frameworks_path)

\* the paths, in file order, that the load commands of the given kinds carry
RECURSIVE NamesOf(_, _, _)
NamesOf(cmds, kinds, k) ==
    IF k > Len(cmds) THEN <<>>
    ELSE (IF cmds[k].cmd \in kinds THEN <<cmds[k].name>> ELSE <<>>)
         \o NamesOf(cmds, kinds, k + 1)

\* C20 (as stated; refuted): when from_path returns, loaded_libs holds the
\* whole path of every load command that declares a dynamic-library
\* dependency, rpaths the whole path of every LC_RPATH command, both in file
\* order, and nothing else.
C20_InspectionComplete ==
    (pc = "returned") =>
        /\ parse.loaded_libs = NamesOf(binary, DylibDependencyCmds, 1)
        /\ parse.rpaths = NamesOf(binary, {"LC_RPATH"}, 1)

\* the while loop with the worklist used as a queue: an iteration takes the
\* node that was pushed first (libs_to_analyze.pop(0)) and is otherwise the
\* iteration of lines 148-208
PlanIterFifo(f, libs_in_rpath, st) ==
    LET current_node == st.libs_to_analyze[1]
        popped == Tail(st.libs_to_analyze)
        current_lib == from_path(f, current_node.path)
        cached == CacheRpaths(f, st.lib_names_in_rpaths, current_lib.rpaths, 1)
        sublibs_to_relocate ==
            list_sublibs_to_relocate(current_lib.loaded_libs, libs_in_rpath)
    IN  RelocateSublibs(f,
            [st EXCEPT !.libs_to_analyze = popped, !.lib_names_in_rpaths = cached],
            current_node, sublibs_to_relocate, 1)

RECURSIVE RunPlanFifo(_, _, _)
RunPlanFifo(f, libs_in_rpath, st) ==
    IF \/ st.err # ""
       \/ st.libs_to_analyze = <<>>
       \/ st.libs_to_analyze[1].depth > MaxDepth
    THEN st
    ELSE RunPlanFifo(f, libs_in_rpath, PlanIterFifo(f, libs_in_rpath, st))

\* what a walk that has ended hands back: that it failed, or the sets of its
\* actions
Outcome(st) ==
    IF st.err # "" THEN [failed |-> TRUE, copies |-> {}, updates |-> {}, removals |-> {}]
    ELSE [failed |-> FALSE,
          copies |-> Range(st.copy_actions),
          updates |-> Range(st.load_path_updates),
          removals |-> Range(st.rpath_removals)]

\* the walk has ended: it failed or emptied its worklist
Ended(st) == st.err # "" \/ st.libs_to_analyze = <<>>

\* C21 (as stated; refuted): when create_relocation_plan is entered for a
\* root, the walk that pops the last node pushed, as the code does, and the
\* walk that pops the first node pushed end alike, where both end: both
\* fail, or both return the same sets of CopyLib, LoadPathChange and
\* RemoveAllRpath actions.
C21_OrderIndependent ==
    (pc = "plan" /\ plan = PlanInit(root_lib)) =>
        LET lifo == RunPlan(fs, info.libs_in_rpath, plan)
            fifo == RunPlanFifo(fs, info.libs_in_rpath, plan)
        IN  (Ended(lifo) /\ Ended(fifo)) => Outcome(lifo) = Outcome(fifo)

\* C22 (as stated; refuted): in every state of a planning run no CopyLib has
\* the root of the walk as its src and no RemoveAllRpath names the root.
C22_RootNeverCopied ==
    (pc = "plan") =>
        /\ \A c \in Range(plan.copy_actions) : c.src # root_lib
        /\ \A a \in Range(plan.rpath_removals) : a.lib # root_lib

\* C23 (as stated; refuted): in every state of a planning run the k-th
\* LoadPathChange and the k-th CopyLib, which were emitted for the same
\* dependency, agree on the filename: new is @rpath/<name> with <name> the
\* filename of dst.
C23_NameMatchesCopy ==
    (pc = "plan") =>
        /\ Len(plan.load_path_updates) = Len(plan.copy_actions)
        /\ \A k \in 1..Len(plan.load_path_updates) :
              plan.load_path_updates[k].new = RpathSpec(plan.copy_actions[k].dst.name)

\* the actions of the three lists name, as the file to write, only files
\* directly inside Contents/Frameworks or, for a LoadPathChange, one of the
\* given roots
TargetsInBundle(copies, updates, removals, roots) ==
    /\ \A c \in Range(copies) : c.dst.dir = frameworks_path
    /\ \A a \in Range(removals) : a.lib.dir = frameworks_path
    /\ \A a \in Range(updates) : a.lib \in roots \/ a.lib.dir = frameworks_path

\* C24: in every state of a planning run the actions emitted so far, and in
\* every state of main the actions accumulated, target only files directly
\* inside Contents/Frameworks or the root being planned; and no step of a
\* run creates, changes or removes a file other than a file directly inside
\* Contents/Frameworks, the executable or a plugin.
C24_ExternalUnchanged ==
    /\ []((pc = "plan") =>
            TargetsInBundle(plan.copy_actions, plan.load_path_updates,
                            plan.rpath_removals, {root_lib}))
    /\ [](TargetsInBundle(all_copy_actions, all_update_actions,
                          all_rpath_removals, Range(Roots)))
    /\ [][ \A p \in DOMAIN fs \cup DOMAIN fs' :
              (p.dir # frameworks_path /\ p \notin Range(Roots)) =>
                  (p \in DOMAIN fs /\ p \in DOMAIN fs' /\ fs'[p] = fs[p])
         ]_vars

\* C24 witness: the loops have run, a library found in an external install
\* tree with search paths of its own has been copied and its copy stripped,
\* and the library itself is as it was.
C24_Witness ==
    /\ pc = "sign"
    /\ ~rerun
    /\ \E c \in Range(all_copy_actions) :
          /\ c.src.dir \in {EXT, EXT2}
          /\ fs0[c.src].rpaths # <<>>
          /\ fs[c.dst].rpaths = <<>>
          /\ fs[c.src] = fs0[c.src]
    /\ \E a \in Range(all_update_actions) : a.lib.dir = frameworks_path

====
